---------------------------- MODULE Spec2Model ----------------------------
(***************************************************************************)
(* A state-machine model of cibuildwheel/bashlex_eval.py: the evaluator    *)
(* of a restricted subset of shell expressions.                            *)
(*                                                                         *)
(* Python strings are modelled as sequences of one-character strings.      *)
(* Source positions are kept 0-based and end-exclusive, as bashlex gives   *)
(* them; text[k + 1] is the character at Python index k.                   *)
(* The recursion of the evaluator is modelled by an explicit call stack    *)
(* of frames, one frame per active evaluate_* call.                        *)
(***************************************************************************)
EXTENDS Integers, Sequences, FiniteSets, TLC

(***************************************************************************)
(* Bounds of the model.                                                    *)
(***************************************************************************)
\* longest literal expression (in characters) passed to evaluate
MaxLitLen == 4
\* most sub-commands in one command-substitution body
MaxCmds == 2
\* most items (literal characters, parameters, substitutions) in one word
MaxItems == 3

(***************************************************************************)
(* Characters and strings.                                                 *)
(***************************************************************************)
SP == " "
NL == "\n"
SQ == "'"
DQ == "\""

\* shlex.whitespace / str.strip() whitespace, within the model's alphabet
Whitespace == {SP, NL}
\* shlex.quotes in POSIX mode
Quotes == {SQ, DQ}

EmptyStr == << >>

RECURSIVE Concat(_)
\* ''.join(strs): the concatenation of a sequence of strings
Concat(strs) ==
    IF strs = << >> THEN EmptyStr ELSE Head(strs) \o Concat(Tail(strs))

RECURSIVE Join(_, _)
\* sep.join(strs)
Join(sep, strs) ==
    IF strs = << >> THEN EmptyStr
    ELSE IF Len(strs) = 1 THEN strs[1]
    ELSE strs[1] \o sep \o Join(sep, Tail(strs))

\* ' '.join(words), line 105
\* a faulty variant: the words are joined without the space
JoinCommandMut(words) == Concat(words)
JoinCommand(words) == Join(<<SP>>, words)

\* text[a:b] for 0 <= a <= b <= len(text)
Slice(text, a, b) == SubSeq(text, a + 1, b)

RECURSIVE LStrip(_)
LStrip(s) ==
    IF s # << >> /\ Head(s) \in Whitespace THEN LStrip(Tail(s)) ELSE s

RECURSIVE RStrip(_)
RStrip(s) ==
    IF s # << >> /\ s[Len(s)] \in Whitespace
    THEN RStrip(SubSeq(s, 1, Len(s) - 1)) ELSE s

\* str.strip()
\* a faulty variant: the word is not stripped
StripMut(s) == s
Strip(s) == LStrip(RStrip(s))

(***************************************************************************)
(* shlex.split(value) in POSIX mode with whitespace_split, as the standard *)
(* library's shlex.read_token computes it, for strings without backslash.  *)
(* state is " " (between tokens), "a" (in a token) or the open quote.      *)
(***************************************************************************)
RECURSIVE ShlexScan(_, _, _, _, _, _)
ShlexScan(s, i, state, token, quoted, toks) ==
    IF i > Len(s)
    THEN IF state \in Quotes
         THEN [ok |-> FALSE, toks |-> << >>]      \* No closing quotation
         ELSE [ok |-> TRUE,
               toks |-> IF token # << >> \/ quoted
                        THEN Append(toks, token) ELSE toks]
    ELSE LET ch == s[i] IN
         IF state = " "
         THEN IF ch \in Whitespace
              THEN ShlexScan(s, i + 1, " ", << >>, FALSE, toks)
              ELSE IF ch \in Quotes
              THEN ShlexScan(s, i + 1, ch, << >>, TRUE, toks)
              ELSE ShlexScan(s, i + 1, "a", <<ch>>, FALSE, toks)
         ELSE IF state \in Quotes
         THEN IF ch = state
              THEN ShlexScan(s, i + 1, "a", token, TRUE, toks)
              ELSE ShlexScan(s, i + 1, state, Append(token, ch), TRUE, toks)
         ELSE \* state = "a"
              IF ch \in Whitespace
              THEN ShlexScan(s, i + 1, " ", << >>, FALSE,
                             IF token # << >> \/ quoted
                             THEN Append(toks, token) ELSE toks)
              ELSE IF ch \in Quotes
              THEN ShlexScan(s, i + 1, ch, token, TRUE, toks)
              ELSE ShlexScan(s, i + 1, "a", Append(token, ch), quoted, toks)

shlex_split(s) == ShlexScan(s, 1, " ", << >>, FALSE, << >>)

\* line 73: ' '.join(word.strip() for word in shlex.split(value))
\* a faulty variant: the fields are neither stripped nor separated
QuoteWhitespaceTreatmentMut(toks) == Concat(toks)
QuoteWhitespaceTreatment(toks) ==
    Join(<<SP>>, [k \in 1..Len(toks) |-> Strip(toks[k])])


(***************************************************************************)
(* Syntax-tree nodes (bashlex.ast.node).  Every node is a record with the  *)
(* attributes the evaluator reads: kind, pos = (s, e), parts, value (the   *)
(* name of a parameter node, one character long in this model) and op (the *)
(* symbol of an operator node).  A                                         *)
(* commandsubstitution node's `command` attribute is kept as its one part. *)
(***************************************************************************)
Node(kind, s, e, parts, value, op) ==
    [kind |-> kind, s |-> s, e |-> e, parts |-> parts, value |-> value, op |-> op]

WordNode(s, e, parts) == Node("word", s, e, parts, "", "")

(***************************************************************************)
(* bashlex.parsesingle on a literal expression (no '$', no operator        *)
(* characters): the top-level command node's parts are the words of the    *)
(* text, split at unquoted whitespace, each with its source span.  An      *)
(* unterminated quote or a text without any word is a parser failure.      *)
(***************************************************************************)
RECURSIVE LitScan(_, _, _, _, _)
\* i: next 1-based index; start: 0-based start of the open word or -1;
\* q: the open quote or ""; words: the word nodes found so far
LitScan(text, i, start, q, words) ==
    IF i > Len(text)
    THEN IF q # "" THEN [ok |-> FALSE, parts |-> << >>]
         ELSE LET ws == IF start >= 0
                        THEN Append(words, WordNode(start, Len(text), << >>))
                        ELSE words
              IN [ok |-> ws # << >>, parts |-> ws]
    ELSE LET ch == text[i] IN
         IF q # ""
         THEN LitScan(text, i + 1, start, IF ch = q THEN "" ELSE q, words)
         ELSE IF ch \in Whitespace
         THEN LitScan(text, i + 1, -1, "",
                      IF start >= 0
                      THEN Append(words, WordNode(start, i - 1, << >>))
                      ELSE words)
         ELSE LitScan(text, i + 1, IF start >= 0 THEN start ELSE i - 1,
                      IF ch \in Quotes THEN ch ELSE "", words)

ParseLiteral(text) == LitScan(text, 1, -1, "", << >>)

(***************************************************************************)
(* Expressions with expansions are built from abstract descriptions, so    *)
(* that the text and the spans of the tree agree as the parser makes them  *)
(* agree.  An item of a word is a literal, a parameter or a command        *)
(* substitution; a body is a sequence of commands, pipelines and the       *)
(* operators between them.                                                 *)
(***************************************************************************)
Lit(c) == [t |-> "lit", c |-> c, name |-> "", body |-> << >>]
Param(name) == [t |-> "param", c |-> EmptyStr, name |-> name, body |-> << >>]
CmdSub(body) == [t |-> "cs", c |-> EmptyStr, name |-> "", body |-> body]
Cmd(words) == [t |-> "cmd", op |-> "", words |-> words]
Op(op) == [t |-> "op", op |-> op, words |-> << >>]
Pipe == [t |-> "pipe", op |-> "|", words |-> << >>]
\* a pipeline holds its commands and pipes in the place of the words
Pipeline(elems) == [t |-> "pipeline", op |-> "", words |-> elems]

\* the source text of an operator symbol
OpText(op) ==
    CASE op = ";" -> <<";">>
      [] op = "&" -> <<"&">>
      [] op = "|" -> <<"|">>
      [] op = "&&" -> <<"&", "&">>
      [] op = "||" -> <<"|", "|">>

RECURSIVE BuildWord(_, _)
RECURSIVE BuildWords(_, _)
RECURSIVE BuildBody(_, _)

\* the node a body parses to: its one element, or the list of its elements
BodyNode(elems, s, e, parts) ==
    IF Len(elems) = 1 THEN parts[1]
    ELSE Node("list", s, e, parts, "", "")

\* [text, parts]: the text of one item at offset off and the nodes it adds
BuildItem(item, off) ==
    IF item.t = "lit" THEN [text |-> item.c, parts |-> << >>]
    ELSE IF item.t = "param"
    THEN [text |-> <<"$", item.name>>,
          parts |-> <<Node("parameter", off, off + 2, << >>, item.name, "")>>]
    ELSE LET b == BuildBody(item.body, off + 2)
             e == off + 2 + Len(b.text) + 1
         IN [text |-> <<"$", "(">> \o b.text \o <<")">>,
             parts |-> <<Node("commandsubstitution", off, e,
                              <<BodyNode(item.body, off + 2, e - 1, b.parts)>>,
                              "", "")>>]

RECURSIVE BuildItems(_, _)
BuildItems(items, off) ==
    IF items = << >> THEN [text |-> EmptyStr, parts |-> << >>]
    ELSE LET h == BuildItem(Head(items), off)
             r == BuildItems(Tail(items), off + Len(h.text))
         IN [text |-> h.text \o r.text, parts |-> h.parts \o r.parts]

\* [text, node] of one word at offset off
BuildWord(items, off) ==
    LET b == BuildItems(items, off)
    IN [text |-> b.text, node |-> WordNode(off, off + Len(b.text), b.parts)]

\* [text, parts] of the words of a command, separated by single spaces
BuildWords(words, off) ==
    IF words = << >> THEN [text |-> EmptyStr, parts |-> << >>]
    ELSE LET h == BuildWord(Head(words), off)
         IN IF Len(words) = 1 THEN [text |-> h.text, parts |-> <<h.node>>]
            ELSE LET r == BuildWords(Tail(words), off + Len(h.text) + 1)
                 IN [text |-> h.text \o <<SP>> \o r.text,
                     parts |-> <<h.node>> \o r.parts]

\* [text, node] of one element of a body at offset off
BuildElem(el, off) ==
    IF el.t = "cmd"
    THEN LET w == BuildWords(el.words, off)
         IN [text |-> w.text,
             node |-> Node("command", off, off + Len(w.text), w.parts,
                           "", "")]
    ELSE IF el.t = "op"
    THEN [text |-> OpText(el.op),
          node |-> Node("operator", off, off + Len(OpText(el.op)), << >>,
                        "", el.op)]
    ELSE IF el.t = "pipe"
    THEN [text |-> <<"|">>,
          node |-> Node("pipe", off, off + 1, << >>, "", "")]
    ELSE LET b == BuildBody(el.words, off)
         IN [text |-> b.text,
             node |-> Node("pipeline", off, off + Len(b.text), b.parts, "", "")]

\* [text, parts] of a body: its elements separated by single spaces
BuildBody(elems, off) ==
    IF elems = << >> THEN [text |-> EmptyStr, parts |-> << >>]
    ELSE LET h == BuildElem(Head(elems), off)
         IN IF Len(elems) = 1 THEN [text |-> h.text, parts |-> <<h.node>>]
            ELSE LET r == BuildBody(Tail(elems), off + Len(h.text) + 1)
                 IN [text |-> h.text \o <<SP>> \o r.text,
                     parts |-> <<h.node>> \o r.parts]

\* the expression made of one top-level word: its text and the parser's answer
BuildExpr(items) ==
    LET w == BuildWord(items, 0)
    IN [value |-> w.text, ast |-> [ok |-> TRUE, parts |-> <<w.node>>]]


(***************************************************************************)
(* The inputs: expressions, environments and executor outcomes.            *)
(***************************************************************************)
LitChars == {"a", SP, SQ}

\* every string over LitChars of length 0..n
RECURSIVE StringsUpTo(_)
StringsUpTo(n) ==
    IF n = 0 THEN {EmptyStr}
    ELSE LET r == StringsUpTo(n - 1)
         IN r \cup {Append(x, c) : x \in {y \in r : Len(y) = n - 1}, c \in LitChars}

LiteralInputs ==
    {[value |-> x, ast |-> ParseLiteral(x)] : x \in StringsUpTo(MaxLitLen)}

W(c) == <<Lit(<<c>>)>>

\* the simple commands of the model: a, b $F, a $(b)
Cmds ==
    { <<W("a")>>,
      <<W("b"), <<Param("F")>> >>,
      <<W("a"), <<CmdSub(<<Cmd(<<W("b")>>)>>)>> >> }

\* the operator symbols between two commands of a list
Ops == {";", "&&", "||"}

RECURSIVE BodiesOf(_)
\* the bodies of exactly n commands separated by operators
BodiesOf(n) ==
    IF n = 1 THEN {<<Cmd(c)>> : c \in Cmds}
    ELSE {b \o <<Op(o), Cmd(c)>> : b \in BodiesOf(n - 1), o \in Ops, c \in Cmds}

\* lists that end with an operator, and pipelines
OtherBodies ==
    {<<Cmd(<<W("a")>>), Op(o)>> : o \in {";", "&"}}
    \cup {<<Pipeline(<<Cmd(<<W("a")>>), Pipe, Cmd(<<W("b")>>)>>)>>,
          <<Pipeline(<<Cmd(<<W("a")>>), Pipe, Cmd(<<W("b")>>)>>), Op(";"),
            Cmd(<<W("a")>>)>>}

Bodies == UNION {BodiesOf(n) : n \in 1..MaxCmds} \cup OtherBodies

\* the items of a word
Items ==
    {Lit(<<"-">>), Lit(<<DQ>>), Param("F"), Param("G"),
     CmdSub(<<Cmd(<<W("a")>>)>>)}

RECURSIVE WordsOf(_)
\* the words of exactly n items
WordsOf(n) ==
    IF n = 0 THEN {<< >>}
    ELSE {Append(w, it) : w \in WordsOf(n - 1), it \in Items}

ExpansionInputs ==
    {BuildExpr(<<CmdSub(b)>>) : b \in Bodies}
    \cup {BuildExpr(w) : w \in UNION {WordsOf(n) : n \in 1..MaxItems}}

\* a double quote is a literal of a word only in pairs
Balanced(text) == Cardinality({k \in 1..Len(text) : text[k] = DQ}) % 2 = 0

Inputs == LiteralInputs \cup {x \in ExpansionInputs : Balanced(x.value)}

EmptyEnv == [n \in {} |-> EmptyStr]

Envs ==
    { EmptyEnv,
      [n \in {"F"} |-> <<"b">>],
      [n \in {"F", "G"} |-> IF n = "F" THEN <<"b", SP, SP, "c">> ELSE <<"d">>] }

\* what the executor prints when it succeeds
Outputs == { <<"c">>, <<SP, "c", SP, SP, "d", NL>>, <<SQ>> }

\* what one invocation of the executor does: return an output, or raise
ExecutorOutcomes ==
    {[ok |-> TRUE, out |-> o] : o \in Outputs} \cup {[ok |-> FALSE, out |-> EmptyStr]}


(***************************************************************************)
(* The state.                                                              *)
(***************************************************************************)
VARIABLES
    value,        \* the expression passed to evaluate
    environment,  \* the caller's environment mapping
    ast,          \* what bashlex.parsesingle answers for value
    context,      \* the NodeExecutionContext of the running call
    stack,        \* the active evaluate_* calls, innermost last
    ret,          \* the value the call that just returned hands to its caller
    status,       \* "idle" (called, not started), "running", "returned", "raised"
    result,       \* the string evaluate returned
    exc,          \* the exception evaluate raised
    log,          \* the invocations of the executor, in order: the command
                  \* line and environment given, the outcome, and the span
                  \* of the command node the invocation is for
    lookups,      \* how many times the environment was looked up
    first         \* the outcome of the first call, once its result is re-evaluated

vars ==
    <<value, environment, ast, context, stack, ret, status, result, exc, log,
      lookups, first>>

NoRet == [has |-> FALSE, val |-> EmptyStr]
NoExc == [kind |-> "", text |-> EmptyStr, sym |-> ""]
NoFirst == [done |-> FALSE, value |-> EmptyStr, result |-> EmptyStr]

\* class NodeExecutionContext; the executor is the environment of the model
NodeExecutionContext(env, input) == [environment |-> env, input |-> input]

\* one active call: fn is the function, node its node argument (for the
\* command evaluators, the node whose parts were passed), i the 1-based
\* index of the part the loop is at, letters / words / result the locals,
\* vals the values the evaluated parts returned so far
Frame(fn, node, letters) ==
    [fn |-> fn, node |-> node, i |-> 1, letters |-> letters, words |-> << >>,
     result |-> EmptyStr, vals |-> << >>]

Top == stack[Len(stack)]
Pop(stk) == SubSeq(stk, 1, Len(stk) - 1)
SetTop(f) == [stack EXCEPT ![Len(stack)] = f]

Init ==
    /\ \E inp \in Inputs : value = inp.value /\ ast = inp.ast
    /\ environment \in Envs
    /\ context = NodeExecutionContext(EmptyEnv, EmptyStr)
    /\ stack = << >>
    /\ ret = NoRet
    /\ status = "idle"
    /\ result = EmptyStr
    /\ exc = NoExc
    /\ log = << >>
    /\ lookups = 0
    /\ first = NoFirst

(***************************************************************************)
(* Raising and returning.  No function of the module catches anything, so  *)
(* an exception unwinds every active call and leaves evaluate.             *)
(***************************************************************************)
Raise(kind, text, sym) ==
    /\ status' = "raised"
    /\ exc' = [kind |-> kind, text |-> text, sym |-> sym]
    /\ stack' = << >>
    /\ ret' = NoRet
    /\ UNCHANGED result

\* the call on top of stk returns v to its caller
Return(stk, v) ==
    /\ stack' = Pop(stk)
    /\ ret' = [has |-> TRUE, val |-> v]
    /\ UNCHANGED <<status, exc, result>>

\* lines 54-57: the locals of evaluate_word_node at its start
WordLetters(node, input) ==
    LET word_string == Slice(input, node.s, node.e)
    IN [k \in 1..Len(word_string) |-> <<word_string[k]>>]

\* lines 76-80: evaluate_command_node picks the evaluator of the parts
IsCompound(node) == \E k \in 1..Len(node.parts) : node.parts[k].kind = "operator"

evaluate_command_node(node) ==
    IF IsCompound(node)
    THEN Frame("compound", node, << >>)
    ELSE Frame("simple", node, << >>)

\* a call is made: its frame goes on top of the callers stk
Push(stk, frame) ==
    /\ stack' = Append(stk, frame)
    /\ ret' = NoRet
    /\ status' = "running"
    /\ UNCHANGED <<exc, result>>

\* lines 42-50: the call evaluate_node(node) made with stk as the callers
evaluate_node(stk, node, ctx) ==
    IF node.kind = "word"
    THEN Push(stk, Frame("word", node, WordLetters(node, ctx.input)))
    ELSE IF node.kind = "commandsubstitution"
    THEN Push(stk, evaluate_command_node(node.parts[1]))
    ELSE IF node.kind = "parameter"
    THEN Push(stk, Frame("parameter", node, << >>))
    ELSE Raise("UnsupportedConstruct", EmptyStr, node.kind)

(***************************************************************************)
(* evaluate, lines 23-39.                                                  *)
(***************************************************************************)
\* line 31
\* a faulty variant: two parts are let through
WrongPartCountMut(n) == n > 2
WrongPartCount(n) == n # 1

evaluate ==
    /\ status = "idle"
    /\ UNCHANGED <<value, environment, ast, log, lookups, first>>
    /\ IF value = EmptyStr
       THEN /\ status' = "returned"
            /\ result' = EmptyStr
            /\ UNCHANGED <<context, stack, ret, exc>>
       ELSE IF ~ast.ok
       THEN /\ Raise("ParserError", value, "")
            /\ UNCHANGED context
       ELSE IF WrongPartCount(Len(ast.parts))
       THEN /\ Raise("TooManyParts", value, "")
            /\ UNCHANGED context
       ELSE /\ context' = NodeExecutionContext(environment, value)
            /\ evaluate_node(<< >>, ast.parts[1], context')

\* line 36: evaluate returns what evaluate_node returned
evaluate_return ==
    /\ status = "running"
    /\ stack = << >>
    /\ ret.has
    /\ status' = "returned"
    /\ result' = ret.val
    /\ ret' = NoRet
    /\ UNCHANGED <<value, environment, ast, context, stack, exc, log, lookups,
                   first>>


(***************************************************************************)
(* evaluate_word_node, lines 53-73.                                        *)
(***************************************************************************)
\* lines 64-65: for i in range(part_start, part_end): letters[i] = ''
\* a faulty variant: the last character of the part is not blanked
BlankMut(letters, part_start, part_end) ==
    [k \in 1..Len(letters) |->
        IF part_start + 1 <= k /\ k <= part_end - 1 THEN EmptyStr ELSE letters[k]]
Blank(letters, part_start, part_end) ==
    [k \in 1..Len(letters) |->
        IF part_start + 1 <= k /\ k <= part_end THEN EmptyStr ELSE letters[k]]

\* line 67: letters[part_start] = <the part's value>
Splice(letters, part_start, v) == [letters EXCEPT ![part_start + 1] = v]

\* lines 59-67, up to the call: the part's characters are blanked and the
\* part is evaluated
evaluate_word_node_part ==
    /\ status = "running"
    /\ stack # << >>
    /\ Top.fn = "word"
    /\ ~ret.has
    /\ Top.i <= Len(Top.node.parts)
    /\ LET part == Top.node.parts[Top.i]
           part_start == part.s - Top.node.s
           part_end == part.e - Top.node.s
           f == [Top EXCEPT !.letters = Blank(Top.letters, part_start, part_end)]
       IN evaluate_node(SetTop(f), part, context)
    /\ UNCHANGED <<value, environment, ast, context, log, lookups, first>>

\* line 67, after the call: the part's value is put at the part's start
evaluate_word_node_splice ==
    /\ status = "running"
    /\ stack # << >>
    /\ Top.fn = "word"
    /\ ret.has
    /\ LET part == Top.node.parts[Top.i]
           part_start == part.s - Top.node.s
       IN stack' = SetTop([Top EXCEPT
                              !.letters = Splice(Top.letters, part_start, ret.val),
                              !.vals = Append(Top.vals, ret.val),
                              !.i = Top.i + 1])
    /\ ret' = NoRet
    /\ UNCHANGED <<value, environment, ast, context, status, result, exc, log,
                   lookups, first>>

\* lines 69-73: the letters are joined and split, stripped and rejoined
evaluate_word_node_return ==
    /\ status = "running"
    /\ stack # << >>
    /\ Top.fn = "word"
    /\ ~ret.has
    /\ Top.i > Len(Top.node.parts)
    /\ LET joined == Concat(Top.letters)
           sp == shlex_split(joined)
       IN IF sp.ok
          THEN Return(stack, QuoteWhitespaceTreatment(sp.toks))
          ELSE Raise("NoClosingQuotation", joined, "")
    /\ UNCHANGED <<value, environment, ast, context, log, lookups, first>>

(***************************************************************************)
(* evaluate_nodes_as_compound_command, lines 83-100.                       *)
(***************************************************************************)
\* line 93
\* a faulty variant: every operator is taken for ';'
IsSequencerMut(op) == TRUE
IsSequencer(op) == op = ";"

\* line 91: result += <the command's value>
\* a faulty variant: the values are separated by a space
AccumulateMut(acc, v) == IF acc = EmptyStr THEN v ELSE acc \o <<SP>> \o v
Accumulate(acc, v) == acc \o v

\* lines 89-98, up to the call for a command node
evaluate_nodes_as_compound_command_part ==
    /\ status = "running"
    /\ stack # << >>
    /\ Top.fn = "compound"
    /\ ~ret.has
    /\ Top.i <= Len(Top.node.parts)
    /\ LET node == Top.node.parts[Top.i]
       IN IF node.kind = "command"
          THEN Push(stack, evaluate_command_node(node))
          ELSE IF node.kind = "operator"
          THEN IF IsSequencer(node.op)
               THEN /\ stack' = SetTop([Top EXCEPT !.i = Top.i + 1])
                    /\ UNCHANGED <<ret, status, exc, result>>
               ELSE Raise("UnsupportedOperator", EmptyStr, node.op)
          ELSE Raise("UnsupportedCompoundNode", EmptyStr, node.kind)
    /\ UNCHANGED <<value, environment, ast, context, log, lookups, first>>

\* line 91, after the call
evaluate_nodes_as_compound_command_append ==
    /\ status = "running"
    /\ stack # << >>
    /\ Top.fn = "compound"
    /\ ret.has
    /\ stack' = SetTop([Top EXCEPT !.result = Accumulate(Top.result, ret.val),
                                   !.vals = Append(Top.vals, ret.val),
                                   !.i = Top.i + 1])
    /\ ret' = NoRet
    /\ UNCHANGED <<value, environment, ast, context, status, result, exc, log,
                   lookups, first>>

\* line 100
evaluate_nodes_as_compound_command_return ==
    /\ status = "running"
    /\ stack # << >>
    /\ Top.fn = "compound"
    /\ ~ret.has
    /\ Top.i > Len(Top.node.parts)
    /\ Return(stack, Top.result)
    /\ UNCHANGED <<value, environment, ast, context, log, lookups, first>>

(***************************************************************************)
(* evaluate_nodes_as_simple_command, lines 103-106.                        *)
(***************************************************************************)
\* line 104, up to the call for one part
evaluate_nodes_as_simple_command_part ==
    /\ status = "running"
    /\ stack # << >>
    /\ Top.fn = "simple"
    /\ ~ret.has
    /\ Top.i <= Len(Top.node.parts)
    /\ evaluate_node(stack, Top.node.parts[Top.i], context)
    /\ UNCHANGED <<value, environment, ast, context, log, lookups, first>>

\* line 104, after the call
evaluate_nodes_as_simple_command_collect ==
    /\ status = "running"
    /\ stack # << >>
    /\ Top.fn = "simple"
    /\ ret.has
    /\ stack' = SetTop([Top EXCEPT !.words = Append(Top.words, ret.val),
                                   !.i = Top.i + 1])
    /\ ret' = NoRet
    /\ UNCHANGED <<value, environment, ast, context, status, result, exc, log,
                   lookups, first>>

\* line 106: the environment the executor is given
\* a faulty variant: the executor is given an empty environment
ExecutorEnvironmentMut(ctx) == EmptyEnv
ExecutorEnvironment(ctx) == ctx.environment

\* line 106: what an outcome of the executor does to the call
\* a faulty variant: a failure of the executor is taken for its output
ExecutorDoneMut(stk, outcome) == Return(stk, outcome.out)
ExecutorDone(stk, outcome) ==
    IF outcome.ok
    THEN Return(stk, outcome.out)
    ELSE Raise("ExecutorError", EmptyStr, "")

\* lines 105-106: the words are joined and the executor is invoked
evaluate_nodes_as_simple_command_execute ==
    /\ status = "running"
    /\ stack # << >>
    /\ Top.fn = "simple"
    /\ ~ret.has
    /\ Top.i > Len(Top.node.parts)
    /\ \E outcome \in ExecutorOutcomes :
          /\ log' = Append(log, [command |-> JoinCommand(Top.words),
                                 env |-> ExecutorEnvironment(context),
                                 ok |-> outcome.ok,
                                 out |-> outcome.out,
                                 s |-> Top.node.s,
                                 e |-> Top.node.e])
          /\ ExecutorDone(stack, outcome)
    /\ UNCHANGED <<value, environment, ast, context, lookups, first>>

(***************************************************************************)
(* evaluate_parameter_node, lines 109-110.                                 *)
(***************************************************************************)
\* dict.get(name, '')
\* a faulty variant: a missing name is left unexpanded
GetMut(env, name) == IF name \in DOMAIN env THEN env[name] ELSE <<"$", name>>
Get(env, name) == IF name \in DOMAIN env THEN env[name] ELSE EmptyStr

evaluate_parameter_node ==
    /\ status = "running"
    /\ stack # << >>
    /\ Top.fn = "parameter"
    /\ lookups' = lookups + 1
    /\ Return(stack, Get(context.environment, Top.node.value))
    /\ UNCHANGED <<value, environment, ast, context, log, first>>

(***************************************************************************)
(* The caller evaluates the result of a finished call once more, with the  *)
(* same environment.  Only results of literal expressions are re-evaluated *)
(* (their characters are those the literal parser is defined on).          *)
(***************************************************************************)
IsLiteral(text) == \A k \in 1..Len(text) : text[k] \in LitChars

Reevaluate ==
    /\ status = "returned"
    /\ ~first.done
    /\ IsLiteral(value)
    /\ first' = [done |-> TRUE, value |-> value, result |-> result]
    /\ value' = result
    /\ ast' = ParseLiteral(result)
    /\ status' = "idle"
    /\ result' = EmptyStr
    /\ UNCHANGED <<environment, context, stack, ret, exc, log, lookups>>

Next ==
    \/ evaluate
    \/ evaluate_return
    \/ evaluate_word_node_part
    \/ evaluate_word_node_splice
    \/ evaluate_word_node_return
    \/ evaluate_nodes_as_compound_command_part
    \/ evaluate_nodes_as_compound_command_append
    \/ evaluate_nodes_as_compound_command_return
    \/ evaluate_nodes_as_simple_command_part
    \/ evaluate_nodes_as_simple_command_collect
    \/ evaluate_nodes_as_simple_command_execute
    \/ evaluate_parameter_node
    \/ Reevaluate

Spec == Init /\ [][Next]_vars


(***************************************************************************)
(* Definitions the properties share.                                       *)
(***************************************************************************)
Finished == status \in {"returned", "raised"}

\* the expression is one command substitution, $(body), and nothing else
HasSubstBody ==
    /\ ast.ok
    /\ Len(ast.parts) = 1
    /\ Len(ast.parts[1].parts) = 1
    /\ ast.parts[1].parts[1].kind = "commandsubstitution"
    /\ ast.parts[1].parts[1].s = ast.parts[1].s
    /\ ast.parts[1].parts[1].e = ast.parts[1].e
SubstBody == ast.parts[1].parts[1].parts[1]

IsOperator(n) == n.kind = "operator"
IsCommand(n) == n.kind = "command"

\* the index of the first operator of the body that is not ';', or 0
FirstUnsupported(body) ==
    LET bad == {k \in 1..Len(body.parts) :
                   IsOperator(body.parts[k]) /\ body.parts[k].op # ";"}
    IN IF bad = {} THEN 0 ELSE CHOOSE k \in bad : \A j \in bad : k <= j

RECURSIVE CountSimple(_)
RECURSIVE CountSimpleIn(_)
\* how many simple commands (command nodes without operator part) the
\* nodes hold, nested ones included
CountSimpleIn(nodes) ==
    IF nodes = << >> THEN 0
    ELSE CountSimple(Head(nodes)) + CountSimpleIn(Tail(nodes))
CountSimple(node) ==
    (IF IsCommand(node) /\ \A k \in 1..Len(node.parts) : ~IsOperator(node.parts[k])
     THEN 1 ELSE 0) + CountSimpleIn(node.parts)

\* a reference for whitespace collapsing: a whitespace character is kept,
\* as one space, when it follows a non-whitespace character and a
\* non-whitespace character comes later; every other character is kept
RECURSIVE CollapseFrom(_, _)
CollapseFrom(t, k) ==
    IF k > Len(t) THEN EmptyStr
    ELSE IF t[k] \notin Whitespace THEN <<t[k]>> \o CollapseFrom(t, k + 1)
    ELSE IF /\ k > 1
            /\ t[k - 1] \notin Whitespace
            /\ \E j \in (k + 1)..Len(t) : t[j] \notin Whitespace
    THEN <<SP>> \o CollapseFrom(t, k + 1)
    ELSE CollapseFrom(t, k + 1)
Collapse(t) == CollapseFrom(t, 1)

HasQuote(t) == \E k \in 1..Len(t) : t[k] \in Quotes
HasWhitespace(t) == \E k \in 1..Len(t) : t[k] \in Whitespace

\* the step is a return of the call on top of the stack
Returns == stack # << >> /\ stack' = Pop(stack) /\ ret'.has

C2_FailureAborts ==
    \A k \in 1..Len(log) :
        ~log[k].ok
        => /\ k = Len(log)
           /\ status = "raised"
           /\ exc.kind = "ExecutorError"
           /\ stack = << >>
           /\ ~ret.has
           /\ result = EmptyStr

\* the first sub-command of a ';' list of two has failed
C2_Witness ==
    /\ HasSubstBody
    /\ Len(SubstBody.parts) = 3
    /\ IsOperator(SubstBody.parts[2])
    /\ SubstBody.parts[2].op = ";"
    /\ Len(log) = 1
    /\ ~log[1].ok
    /\ log[1].s = SubstBody.parts[1].s
    /\ status = "raised"

(***************************************************************************)
(* C3.                                                                     *)
(***************************************************************************)
\* the command parts of a body, in source order
CommandsOf(body) == SelectSeq(body.parts, IsCommand)

\* the body is a list whose operators are all ';'
IsSequence(body) ==
    /\ \E k \in 1..Len(body.parts) : IsOperator(body.parts[k])
    /\ \A k \in 1..Len(body.parts) :
          \/ IsCommand(body.parts[k])
          \/ IsOperator(body.parts[k]) /\ body.parts[k].op = ";"

\* the invocations made for the sub-commands themselves (not for commands
\* nested in their words), in the order they were made
DirectInvocations(body) ==
    LET starts == {body.parts[k].s : k \in 1..Len(body.parts)}
        IsDirect(entry) == entry.s \in starts
    IN SelectSeq(log, IsDirect)

\* C3: in a body of commands separated by ';' only, the executor is invoked
\* for the sub-commands in source order, and the value the body returns to
\* the word that holds it is the outputs in that order, nothing in between.
C3_Sequencing ==
    (HasSubstBody /\ IsSequence(SubstBody))
    => LET cmds == CommandsOf(SubstBody)
           direct == DirectInvocations(SubstBody)
       IN /\ Len(direct) <= Len(cmds)
          /\ \A k \in 1..Len(direct) : direct[k].s = cmds[k].s
          /\ (status = "running" /\ Len(stack) = 1 /\ ret.has)
             => /\ Len(direct) = Len(cmds)
                /\ ret.val = Concat([k \in 1..Len(direct) |-> direct[k].out])

\* two sub-commands have run and the body has returned both outputs
C3_Witness ==
    /\ HasSubstBody
    /\ IsSequence(SubstBody)
    /\ Len(CommandsOf(SubstBody)) = 2
    /\ status = "running"
    /\ Len(stack) = 1
    /\ ret.has
    /\ Len(log) = 2
    /\ log[1].out # log[2].out
    /\ ret.val = log[1].out \o log[2].out


(***************************************************************************)
(* C4.                                                                     *)
(***************************************************************************)
RECURSIVE SpaceSeparated(_)
\* a reference for the command line: the words with one space before every
\* word but the first
SpaceSeparated(words) ==
    IF words = << >> THEN EmptyStr
    ELSE IF Len(words) = 1 THEN words[1]
    ELSE SpaceSeparated(SubSeq(words, 1, Len(words) - 1))
         \o <<SP>> \o words[Len(words)]

\* the step invokes the executor
Invokes == log' # log

\* C4: the executor is invoked only by a simple command all of whose parts
\* have been evaluated, with the parts' values separated by single spaces
\* and with the context's environment; a simple command returns only by
\* that one invocation, and returns the executor's output unchanged; an
\* invocation for a command nested in another command's word comes before
\* the invocation for that command.
C4_SimpleCommand ==
    /\ [][Invokes =>
             /\ stack # << >>
             /\ Top.fn = "simple"
             /\ Len(Top.words) = Len(Top.node.parts)
             /\ \A k \in 1..Len(Top.node.parts) : ~IsOperator(Top.node.parts[k])
             /\ Len(log') = Len(log) + 1
             /\ SubSeq(log', 1, Len(log)) = log
             /\ log'[Len(log')].command = SpaceSeparated(Top.words)
             /\ log'[Len(log')].env = context.environment
             /\ log'[Len(log')].s = Top.node.s
             /\ log'[Len(log')].ok => (Returns /\ ret'.val = log'[Len(log')].out)
         ]_vars
    /\ [][(Returns /\ Top.fn = "simple") => Invokes]_vars
    /\ [](\A j \in 1..Len(log) : \A k \in (j + 1)..Len(log) :
             ~(log[j].s <= log[k].s /\ log[k].e <= log[j].e))

\* $(a $(b)): b has run, then a with b's output as its second word
C4_Witness ==
    /\ Len(log) = 2
    /\ log[1].command = <<"b">>
    /\ log[1].out = <<SP, "c", SP, SP, "d", NL>>
    /\ log[2].command = <<"a", SP, "c", SP, "d">>
    /\ log[2].s < log[1].s
    /\ log[2].ok
    /\ ret.has
    /\ ret.val = log[2].out

(***************************************************************************)
(* C5.                                                                     *)
(***************************************************************************)
\* C5: a non-empty expression that parses to a number of top-level parts
\* other than one fails with MalformedExpression carrying the expression,
\* before anything is evaluated: no executor invocation, no lookup.
C5_WrongPartCountRejected ==
    (status # "idle" /\ value # EmptyStr /\ ast.ok /\ Len(ast.parts) # 1)
    => /\ status = "raised"
       /\ exc.kind = "TooManyParts"
       /\ exc.text = value
       /\ stack = << >>
       /\ log = << >>
       /\ lookups = 0

\* an expression of two words has been rejected
C5_Witness ==
    /\ ~first.done
    /\ ast.ok
    /\ Len(ast.parts) = 2
    /\ status = "raised"
    /\ exc.kind = "TooManyParts"
    /\ exc.text = value

(***************************************************************************)
(* C6.                                                                     *)
(***************************************************************************)
\* the expression is $name
IsParameterExpr ==
    /\ Len(value) = 2
    /\ value[1] = "$"
    /\ ast.ok
    /\ Len(ast.parts) = 1
    /\ Len(ast.parts[1].parts) = 1
    /\ ast.parts[1].parts[1].kind = "parameter"

\* C6: the parameter evaluator always returns, without invoking the
\* executor: the value the environment maps the name to, or the empty
\* string when the name is no key; so evaluate("$name", env) succeeds, and
\* gives the empty string for a missing name and the mapped value itself
\* when that value holds no whitespace and no quote (else its fields).
C6_ParameterLookup ==
    /\ [][(stack # << >> /\ Top.fn = "parameter")
          => /\ Returns
             /\ status' = "running"
             /\ log' = log
             /\ ret'.val = IF Top.node.value \in DOMAIN environment
                           THEN environment[Top.node.value]
                           ELSE EmptyStr
         ]_vars
    /\ [](IsParameterExpr
          => /\ status # "raised"
             /\ log = << >>
             /\ status = "returned"
                => LET name == value[2] IN
                   /\ name \notin DOMAIN environment => result = EmptyStr
                   /\ name \in DOMAIN environment
                      => /\ result = Collapse(environment[name])
                         /\ ~HasWhitespace(environment[name])
                            => result = environment[name])

\* $F with F = b has evaluated to b
C6_Witness ==
    /\ IsParameterExpr
    /\ status = "returned"
    /\ lookups = 1
    /\ value[2] = "F"
    /\ "F" \in DOMAIN environment
    /\ environment["F"] = <<"b">>
    /\ result = <<"b">>


(***************************************************************************)
(* C7.                                                                     *)
(***************************************************************************)
\* the expression is a literal of the first call: no '$', no quote, and
\* some character that is not whitespace
IsBareLiteral ==
    /\ ~first.done
    /\ IsLiteral(value)
    /\ ~HasQuote(value)
    /\ \E k \in 1..Len(value) : value[k] \notin Whitespace

\* C7 (as claimed): a literal with runs of whitespace, passed to evaluate
\* as it is, evaluates to its whitespace-collapsed form, as the same text
\* does when it is the output of a command substitution.
C7_BareLiteralCollapses ==
    (IsBareLiteral /\ Finished)
    => /\ status = "returned"
       /\ result = Collapse(value)

\* C7 (amended): collapsing is done on the raw value of a word.  Every
\* word whose raw value holds no quote, a word without sub-nodes included,
\* returns that value with its runs of whitespace collapsed to one space
\* and its edges trimmed; so the output of a lone command substitution
\* comes out collapsed.  A bare literal is split into top-level words by
\* the parser first: with one word it evaluates to that word, with two or
\* more evaluate fails with MalformedExpression.
C7_WordValueCollapses ==
    /\ [][(Returns /\ Top.fn = "word" /\ ~HasQuote(Concat(Top.letters)))
          => ret'.val = Collapse(Concat(Top.letters))]_vars
    /\ []((HasSubstBody /\ status = "returned" /\ ~HasQuote(log[Len(log)].out)
           /\ IsCommand(SubstBody) /\ FirstUnsupported(SubstBody) = 0)
          => result = Collapse(log[Len(log)].out))
    /\ []((IsBareLiteral /\ Finished)
          => IF Len(ast.parts) = 1
             THEN status = "returned" /\ result = Collapse(value)
             ELSE status = "raised" /\ exc.kind = "TooManyParts")

\* $(a) whose output is " c  d\n" has evaluated to "c d"
C7_Witness ==
    /\ HasSubstBody
    /\ IsCommand(SubstBody)
    /\ status = "returned"
    /\ Len(log) = 1
    /\ log[1].out = <<SP, "c", SP, SP, "d", NL>>
    /\ result = <<"c", SP, "d">>

(***************************************************************************)
(* C8.                                                                     *)
(***************************************************************************)
\* a reference for quote removal in a literal word: LitChars holds one
\* quote character, so a word of balanced quotes loses exactly these
Unquoted(t) ==
    LET NotQuote(c) == c \notin Quotes IN SelectSeq(t, NotQuote)

\* a reference for str.strip(): the slice from the first to the last
\* character that is not whitespace
Trimmed(t) ==
    LET solid == {k \in 1..Len(t) : t[k] \notin Whitespace}
    IN IF solid = {} THEN EmptyStr
       ELSE SubSeq(t, CHOOSE k \in solid : \A j \in solid : k <= j,
                      CHOOSE k \in solid : \A j \in solid : j <= k)

C9_ContextReadOnly ==
    /\ [][environment' = environment]_vars
    /\ [][status = "running" => (value' = value /\ context' = context)]_vars
    /\ [](status = "running"
          => context.environment = environment /\ context.input = value)
    /\ [](\A k \in 1..Len(log) : log[k].env = environment)

\* two invocations and a lookup under a non-empty environment
C9_Witness ==
    /\ Len(log) = 2
    /\ lookups >= 1
    /\ DOMAIN environment = {"F", "G"}
    /\ status = "returned"

(***************************************************************************)
(* C10.                                                                    *)
(***************************************************************************)
\* the spans of a word's parts lie in the word's span, in order, without
\* overlap, each of one character at least
SpansOrdered(node) ==
    /\ \A k \in 1..Len(node.parts) :
          node.s <= node.parts[k].s /\ node.parts[k].s < node.parts[k].e
          /\ node.parts[k].e <= node.e
    /\ \A k \in 1..(Len(node.parts) - 1) : node.parts[k].e <= node.parts[k + 1].s

RECURSIVE CopySlices(_, _, _, _, _)
\* a reference for the raw value: the literal slices between the parts'
\* spans are copied, each part's value put between them
CopySlices(text, node, vals, k, cursor) ==
    IF k > Len(node.parts) THEN Slice(text, cursor, node.e)
    ELSE Slice(text, cursor, node.parts[k].s)
         \o vals[k]
         \o CopySlices(text, node, vals, k + 1, node.parts[k].e)

\* the word on top has evaluated its parts and is about to join its letters
WordDone ==
    /\ status = "running"
    /\ stack # << >>
    /\ Top.fn = "word"
    /\ ~ret.has
    /\ Top.i > Len(Top.node.parts)

\* C10: when the parts of a word have been evaluated, each once and in
\* order, the letters joined are the word's text with each part's span
\* replaced by the part's value, all other characters in their order.
C10_Reconstruction ==
    (WordDone /\ SpansOrdered(Top.node))
    => /\ Len(Top.vals) = Len(Top.node.parts)
       /\ Concat(Top.letters)
          = CopySlices(context.input, Top.node, Top.vals, 1, Top.node.s)

\* a word of a literal between two parts, whose values differ in length
\* from their spans
C10_Witness ==
    /\ WordDone
    /\ Len(Top.node.parts) = 2
    /\ Top.node.parts[1].e < Top.node.parts[2].s
    /\ Len(Top.vals[1]) > Top.node.parts[1].e - Top.node.parts[1].s
    /\ Len(Top.vals[2]) < Top.node.parts[2].e - Top.node.parts[2].s

=============================================================================
